---- MODULE Spec2Model ----
(***************************************************************************)
(* A model of the xtask shell (src/src/lib.rs): the Shell context, its     *)
(* filesystem helpers (create_dir, write, remove) and the Subprocess       *)
(* command builder with its dry-run flag.                                  *)
(*                                                                         *)
(* Paths are modelled as std::path sees them: the sequence of their        *)
(* components.  An absolute path starts with the RootDir component "/",    *)
(* the empty sequence is the empty path "".  Environment values are        *)
(* OsStrings and are modelled in the same component form, so that the      *)
(* path-valued variables can be handed to PathBuf::from.                   *)
(***************************************************************************)
EXTENDS Integers, Sequences, FiniteSets, TLC

VARIABLES
    live_env,    \* the calling process's live environment (std::env)
    build_env,   \* the variables baked in at build time (option_env!)
    shell,       \* the Shell: NotConstructed, Panicked or its three fields
    builder,     \* the Subprocess being configured, or NoBuilder
    chain,       \* ghost: the configuration calls chained on the builder so far
    fs,          \* the filesystem below the working directory
    free,        \* the number of inodes the filesystem can still allocate
    last         \* observation of the last operation and its result

vars == <<live_env, build_env, shell, builder, chain, fs, free, last>>

(***************************************************************************)
(* Bounds.                                                                 *)
(***************************************************************************)
MaxFree == 1       \* most inodes free in an initial filesystem
MaxCalls == 2      \* most chained configuration calls on one builder

(***************************************************************************)
(* std::path                                                               *)
(***************************************************************************)
RootDir == "/"

\* Path::parent: None for the empty path and for a path that ends in the root
HasParent(p) == Len(p) > 0 /\ p # <<RootDir>>

Parent(p) == SubSeq(p, 1, Len(p) - 1)

\* Path::ancestors: the path, its parent, the parent's parent, ...
RECURSIVE Ancestors(_)
Ancestors(p) == IF HasParent(p) THEN <<p>> \o Ancestors(Parent(p)) ELSE <<p>>

\* Path::join of a relative path
Join(p, name) == Append(p, name)

(***************************************************************************)
(* Options and environments.  An Option is a sequence of at most one       *)
(* element; an environment is a function from the names that are set to    *)
(* their values.                                                           *)
(***************************************************************************)
None == <<>>
Some(x) == <<x>>

is_some(o) == o # None

or_else(o, other) == IF is_some(o) THEN o ELSE other

NoEnv == [k \in {} |-> <<>>]

\* EnvStore::var_os
var_os(store, key) == IF key \in DOMAIN store THEN Some(store[key]) ELSE None

\* Command::env, and one step of Command::envs: the later value of a key wins
SetVar(env, key, val) ==
    [k \in DOMAIN env \cup {key} |-> IF k = key THEN val ELSE env[k]]

\* Command::envs(vars): env(k, v) for every pair of vars
Overlay(env, over) ==
    [k \in DOMAIN env \cup DOMAIN over |-> IF k \in DOMAIN over THEN over[k] ELSE env[k]]

\* EnvStore::fake: the store starts from the process environment as it is
\* at the call and is detached from it afterwards
EnvStore_fake(live) == live

(***************************************************************************)
(* The filesystem.  Paths are relative to the working directory, which is  *)
(* the empty path and always a writable directory.                         *)
(***************************************************************************)
\* the byte strings that files hold and that are written: of several lengths,
\* none a prefix of a longer one but the empty one
Contents == {<<>>, <<1>>, <<0, 1>>, <<1, 0, 0>>}

FsPaths == {<<"a">>, <<"a", "b">>, <<"a", "b", "c">>, <<"a", "f">>}

Absent == [kind |-> "none", ro |-> FALSE, content |-> <<>>]
Dir(ro) == [kind |-> "dir", ro |-> ro, content |-> <<>>]
File(c) == [kind |-> "file", ro |-> FALSE, content |-> c]

Nodes == {Absent} \cup {Dir(r) : r \in BOOLEAN} \cup {File(c) : c \in Contents}

Cwd == <<>>

KindOf(f, p) == IF p = Cwd THEN "dir" ELSE f[p].kind

\* Path::is_dir / Path::is_file
IsDir(f, p) == KindOf(f, p) = "dir"
IsFile(f, p) == KindOf(f, p) = "file"

Writable(f, p) == p = Cwd \/ ~f[p].ro

Children(f, p) == {q \in FsPaths : Parent(q) = p /\ f[q].kind # "none"}

Below(p) == {q \in FsPaths : Len(q) > Len(p) /\ SubSeq(q, 1, Len(p)) = p}

WellFormed(f) == \A p \in FsPaths : f[p].kind # "none" => IsDir(f, Parent(p))

\* the error of the path walk to p's parent, "" when the parent is a directory
RECURSIVE WalkErr(_, _)
WalkErr(f, p) ==
    IF p = Cwd THEN ""
    ELSE LET up == WalkErr(f, Parent(p))
         IN  IF up # "" THEN up
             ELSE IF KindOf(f, p) = "none" THEN "NotFound"
             ELSE IF KindOf(f, p) = "file" THEN "NotADirectory"
             ELSE ""

Ok(f, n) == [ok |-> TRUE, err |-> "", fs |-> f, free |-> n]
IoErr(e, f, n) == [ok |-> FALSE, err |-> e, fs |-> f, free |-> n]

(***************************************************************************)
(* The system calls behind std::fs, each on a filesystem f with n free     *)
(* inodes.                                                                 *)
(***************************************************************************)
mkdir(f, n, p) ==
    IF p = Cwd THEN IoErr("NotFound", f, n)
    ELSE IF WalkErr(f, Parent(p)) # "" THEN IoErr(WalkErr(f, Parent(p)), f, n)
    ELSE IF KindOf(f, p) # "none" THEN IoErr("AlreadyExists", f, n)
    ELSE IF ~Writable(f, Parent(p)) THEN IoErr("PermissionDenied", f, n)
    ELSE IF n = 0 THEN IoErr("StorageFull", f, n)
    ELSE Ok([f EXCEPT ![p] = Dir(FALSE)], n - 1)

rmdir(f, n, p) ==
    IF WalkErr(f, Parent(p)) # "" THEN IoErr(WalkErr(f, Parent(p)), f, n)
    ELSE IF KindOf(f, p) = "none" THEN IoErr("NotFound", f, n)
    ELSE IF KindOf(f, p) = "file" THEN IoErr("NotADirectory", f, n)
    ELSE IF Children(f, p) # {} THEN IoErr("DirectoryNotEmpty", f, n)
    ELSE IF ~Writable(f, Parent(p)) THEN IoErr("PermissionDenied", f, n)
    ELSE Ok([f EXCEPT ![p] = Absent], n + 1)

unlink(f, n, p) ==
    IF WalkErr(f, Parent(p)) # "" THEN IoErr(WalkErr(f, Parent(p)), f, n)
    ELSE IF KindOf(f, p) = "none" THEN IoErr("NotFound", f, n)
    ELSE IF KindOf(f, p) = "dir" THEN IoErr("IsADirectory", f, n)
    ELSE IF ~Writable(f, Parent(p)) THEN IoErr("PermissionDenied", f, n)
    ELSE Ok([f EXCEPT ![p] = Absent], n + 1)


\* mutant: the file is opened without O_TRUNC
File_create_NoTrunc(f, n, p) ==
    IF WalkErr(f, Parent(p)) # "" THEN IoErr(WalkErr(f, Parent(p)), f, n)
    ELSE IF KindOf(f, p) = "dir" THEN IoErr("IsADirectory", f, n)
    ELSE IF KindOf(f, p) = "file" THEN Ok(f, n)
    ELSE IF ~Writable(f, Parent(p)) THEN IoErr("PermissionDenied", f, n)
    ELSE IF n = 0 THEN IoErr("StorageFull", f, n)
    ELSE Ok([f EXCEPT ![p] = File(<<>>)], n - 1)

\* File::create: open(O_WRONLY | O_CREAT | O_TRUNC)
File_create(f, n, p) ==
    IF WalkErr(f, Parent(p)) # "" THEN IoErr(WalkErr(f, Parent(p)), f, n)
    ELSE IF KindOf(f, p) = "dir" THEN IoErr("IsADirectory", f, n)
    ELSE IF KindOf(f, p) = "file" THEN Ok([f EXCEPT ![p] = File(<<>>)], n)
    ELSE IF ~Writable(f, Parent(p)) THEN IoErr("PermissionDenied", f, n)
    ELSE IF n = 0 THEN IoErr("StorageFull", f, n)
    ELSE Ok([f EXCEPT ![p] = File(<<>>)], n - 1)

\* write_all on a file opened at offset 0: the bytes replace the file's first
\* Len(bytes) bytes, whatever lies beyond them stays
WriteAt(old, bytes) == bytes \o SubSeq(old, Len(bytes) + 1, Len(old))

(***************************************************************************)
(* std::fs.  An operation yields the set of outcomes it can have: the      *)
(* order in which remove_dir_all meets a directory's entries is readdir's. *)
(***************************************************************************)
fs_create_dir(f, n, p) == mkdir(f, n, p)

RECURSIVE fs_create_dir_all(_, _, _)
fs_create_dir_all(f, n, p) ==
    IF p = <<>> THEN Ok(f, n)
    ELSE LET first == mkdir(f, n, p)
         IN  IF first.ok THEN first
             ELSE IF first.err # "NotFound"
                  THEN IF IsDir(f, p) THEN Ok(f, n) ELSE first
             ELSE IF ~HasParent(p) THEN IoErr("Uncategorized", f, n)
             ELSE LET up == fs_create_dir_all(f, n, Parent(p))
                  IN  IF ~up.ok THEN up
                      ELSE LET second == mkdir(up.fs, up.free, p)
                           IN  IF second.ok THEN second
                               ELSE IF IsDir(up.fs, p) THEN Ok(up.fs, up.free)
                               ELSE second

fs_write(f, n, p, bytes) ==
    LET opened == File_create(f, n, p)
    IN  IF ~opened.ok THEN opened
        ELSE Ok([opened.fs EXCEPT ![p] = File(WriteAt(opened.fs[p].content, bytes))],
                opened.free)

fs_remove_file(f, n, p) == unlink(f, n, p)

fs_remove_dir(f, n, p) == rmdir(f, n, p)

RECURSIVE remove_dir_all_recursive(_, _, _)
RECURSIVE remove_children(_, _, _)
remove_children(f, n, p) ==
    IF Children(f, p) = {} THEN {Ok(f, n)}
    ELSE UNION {UNION {IF o.ok THEN remove_children(o.fs, o.free, p) ELSE {o}
                       : o \in remove_dir_all_recursive(f, n, c)}
                : c \in Children(f, p)}

remove_dir_all_recursive(f, n, p) ==
    IF ~IsDir(f, p) THEN {unlink(f, n, p)}
    ELSE {IF o.ok THEN rmdir(o.fs, o.free, p) ELSE o : o \in remove_children(f, n, p)}

fs_remove_dir_all(f, n, p) == remove_dir_all_recursive(f, n, p)

(***************************************************************************)
(* Results and flags.                                                      *)
(***************************************************************************)
ResultOk == [kind |-> "Ok", text |-> <<>>]

\* Error::io_error
io_error(e) == [kind |-> "Io", text |-> <<e>>]

\* Error::msg
msg(text) == [kind |-> "Msg", text |-> text]

CreateFlags_RECURSIVE == 1
RemoveFlags_RECURSIVE == 1

CreateFlags == {0, CreateFlags_RECURSIVE}
RemoveFlags == {0, RemoveFlags_RECURSIVE}

\* bitflags' contains, for a flag of one bit
contains(flags, flag) == (flags \div flag) % 2 = 1

\* the Result<()> of a filesystem outcome after map_err(Error::io_error)
Returned(o) == [res |-> IF o.ok THEN ResultOk ELSE io_error(o.err),
                fs |-> o.fs, free |-> o.free]

(***************************************************************************)
(* Shell's filesystem helpers: the set of (result, filesystem) pairs a     *)
(* call can end in.                                                        *)
(***************************************************************************)

\* mutant: the RECURSIVE flag is ignored and one level is created
create_dir_OneLevel(self, f, n, path, flags) == {Returned(fs_create_dir(f, n, path))}

\* mutant: under dry-run the directory is not created
create_dir_SkipOnDryRun(self, f, n, path, flags) ==
    IF is_some(var_os(self.env_store, "DRY_RUN"))
    THEN {[res |-> ResultOk, fs |-> f, free |-> n]}
    ELSE IF contains(flags, CreateFlags_RECURSIVE)
    THEN {Returned(fs_create_dir_all(f, n, path))}
    ELSE {Returned(fs_create_dir(f, n, path))}

create_dir(self, f, n, path, flags) ==
    IF contains(flags, CreateFlags_RECURSIVE)
    THEN {Returned(fs_create_dir_all(f, n, path))}
    ELSE {Returned(fs_create_dir(f, n, path))}

write(self, f, n, path, content) == {Returned(fs_write(f, n, path, content))}


\* mutant: no check that the path exists before it is removed
remove_Unchecked(self, f, n, path, flags) ==
    IF IsDir(f, path)
    THEN IF contains(flags, RemoveFlags_RECURSIVE)
         THEN {Returned(o) : o \in fs_remove_dir_all(f, n, path)}
         ELSE {Returned(fs_remove_dir(f, n, path))}
    ELSE {Returned(fs_remove_file(f, n, path))}

\* mutant: a directory is removed with all it holds, whatever the flags
remove_AlwaysRecursive(self, f, n, path, flags) ==
    IF IsDir(f, path)
    THEN {Returned(o) : o \in fs_remove_dir_all(f, n, path)}
    ELSE IF IsFile(f, path)
    THEN {Returned(fs_remove_file(f, n, path))}
    ELSE {[res |-> ResultOk, fs |-> f, free |-> n]}

remove(self, f, n, path, flags) ==
    IF IsDir(f, path)
    THEN IF contains(flags, RemoveFlags_RECURSIVE)
         THEN {Returned(o) : o \in fs_remove_dir_all(f, n, path)}
         ELSE {Returned(fs_remove_dir(f, n, path))}
    ELSE IF IsFile(f, path)
    THEN {Returned(fs_remove_file(f, n, path))}
    ELSE {[res |-> ResultOk, fs |-> f, free |-> n]}

VarNames == {"CARGO_MANIFEST_DIR", "CARGO_TARGET_DIR", "DRY_RUN", "X"}

ManifestDirs == {<<RootDir, "repo", "crates", "xtask">>, <<RootDir>>, <<"xtask">>, <<>>}

ValuesFor(k) ==
    CASE k = "CARGO_MANIFEST_DIR" -> ManifestDirs
      [] k = "CARGO_TARGET_DIR" -> {<<RootDir, "out">>}
      [] k = "DRY_RUN" -> {<<>>, <<"1">>}
      [] OTHER -> {}

\* the environments a process can start in
InitEnvs ==
    {e \in UNION {[S -> UNION {ValuesFor(k) : k \in VarNames}] : S \in SUBSET VarNames}
       : \A k \in DOMAIN e : e[k] \in ValuesFor(k)}

\* what option_env! can have baked in at build time
BuildEnvs == {NoEnv, [k \in {"CARGO_MANIFEST_DIR"} |-> <<RootDir, "build", "xtask">>]}

(***************************************************************************)
(* Shell::new                                                              *)
(***************************************************************************)
NotConstructed ==
    [state |-> "none", env_store |-> NoEnv, project_root |-> <<>>, target_dir |-> <<>>]

Panicked(why) ==
    [state |-> why, env_store |-> NoEnv, project_root |-> <<>>, target_dir |-> <<>>]

\* option_env!(name)
option_env(build, name) == var_os(build, name)


\* mutant: a missing CARGO_MANIFEST_DIR falls back to the directory "."
new_DefaultDir(live, build) ==
    LET envs == EnvStore_fake(live)
        manifest_dir == or_else(or_else(var_os(envs, "CARGO_MANIFEST_DIR"),
                                        option_env(build, "CARGO_MANIFEST_DIR")),
                                Some(<<".">>))
        root == Ancestors(manifest_dir[1])
    IN  IF Len(root) < 2 THEN Panicked("unwrap on None")
        ELSE [state |-> "ok", env_store |-> envs, project_root |-> root[2],
              target_dir |-> IF is_some(var_os(envs, "CARGO_TARGET_DIR"))
                             THEN var_os(envs, "CARGO_TARGET_DIR")[1]
                             ELSE Join(root[2], "target")]

\* mutant: the project root is two levels above the manifest directory
new_TwoLevelsUp(live, build) ==
    LET envs == EnvStore_fake(live)
        manifest_dir == or_else(var_os(envs, "CARGO_MANIFEST_DIR"),
                                option_env(build, "CARGO_MANIFEST_DIR"))
    IN  IF ~is_some(manifest_dir) THEN Panicked("missing CARGO_MANIFEST_DIR")
        ELSE IF Len(Ancestors(manifest_dir[1])) < 3 THEN Panicked("unwrap on None")
        ELSE [state |-> "ok", env_store |-> envs,
              project_root |-> Ancestors(manifest_dir[1])[3],
              target_dir |-> IF is_some(var_os(envs, "CARGO_TARGET_DIR"))
                             THEN var_os(envs, "CARGO_TARGET_DIR")[1]
                             ELSE Join(Ancestors(manifest_dir[1])[3], "target")]

new(live, build) ==
    LET envs == EnvStore_fake(live)
        manifest_dir == or_else(var_os(envs, "CARGO_MANIFEST_DIR"),
                                option_env(build, "CARGO_MANIFEST_DIR"))
    IN  IF ~is_some(manifest_dir) THEN Panicked("missing CARGO_MANIFEST_DIR")
        ELSE IF Len(Ancestors(manifest_dir[1])) < 2 THEN Panicked("unwrap on None")
        ELSE LET project_root == Ancestors(manifest_dir[1])[2]
                 target_dir == IF is_some(var_os(envs, "CARGO_TARGET_DIR"))
                               THEN var_os(envs, "CARGO_TARGET_DIR")[1]
                               ELSE Join(project_root, "target")
             IN  [state |-> "ok", env_store |-> envs,
                  project_root |-> project_root, target_dir |-> target_dir]

project_root(self) == self.project_root

target_dir(self) == self.target_dir

(***************************************************************************)
(* std::process::Command and the Subprocess builder.                       *)
(***************************************************************************)
Command_new(program) ==
    [program |-> program, args |-> <<>>, cwd |-> None, clear |-> FALSE,
     vars |-> NoEnv, stdin |-> "inherit", stdout |-> "inherit", stderr |-> "inherit"]

\* the environment a child spawned from the command receives
ChildEnv(command, live) ==
    IF command.clear THEN command.vars ELSE Overlay(live, command.vars)

\* what the operating system is asked to start
ChildOf(command, live) ==
    [program |-> command.program, args |-> command.args, cwd |-> command.cwd,
     env |-> ChildEnv(command, live), stdin |-> command.stdin,
     stdout |-> command.stdout, stderr |-> command.stderr]

NoChild ==
    [program |-> "", args |-> <<>>, cwd |-> None, env |-> NoEnv,
     stdin |-> "", stdout |-> "", stderr |-> ""]

NoBuilder == [alive |-> FALSE, command |-> Command_new(""), dry_run |-> FALSE]


\* mutant: dry-run decided by the value of DRY_RUN, not by its presence
subprocess_ByValue(self, program) ==
    LET c0 == Command_new(program)
        c1 == [c0 EXCEPT !.cwd = Some(self.project_root)]
        c2 == [c1 EXCEPT !.clear = TRUE, !.vars = NoEnv]
        c3 == [c2 EXCEPT !.vars = Overlay(c2.vars, self.env_store)]
        c4 == [c3 EXCEPT !.stdin = "null", !.stdout = "inherit", !.stderr = "inherit"]
    IN  [alive |-> TRUE, command |-> c4,
         dry_run |-> var_os(self.env_store, "DRY_RUN") = Some(<<"1">>)]

\* mutant: the command's environment is not cleared before the snapshot is added
subprocess_NoEnvClear(self, program) ==
    LET c0 == Command_new(program)
        c1 == [c0 EXCEPT !.cwd = Some(self.project_root)]
        c3 == [c1 EXCEPT !.vars = Overlay(c1.vars, self.env_store)]
        c4 == [c3 EXCEPT !.stdin = "null", !.stdout = "inherit", !.stderr = "inherit"]
    IN  [alive |-> TRUE, command |-> c4,
         dry_run |-> is_some(var_os(self.env_store, "DRY_RUN"))]

subprocess(self, program) ==
    LET dry_run == is_some(var_os(self.env_store, "DRY_RUN"))
        c0 == Command_new(program)
        c1 == [c0 EXCEPT !.cwd = Some(self.project_root)]
        c2 == [c1 EXCEPT !.clear = TRUE, !.vars = NoEnv]
        c3 == [c2 EXCEPT !.vars = Overlay(c2.vars, self.env_store)]
        c4 == [c3 EXCEPT !.stdin = "null", !.stdout = "inherit", !.stderr = "inherit"]
    IN  [alive |-> TRUE, command |-> c4, dry_run |-> dry_run]

arg(self, a) == [self EXCEPT !.command.args = Append(@, a)]

args(self, as) == [self EXCEPT !.command.args = @ \o as]

env(self, key, val) == [self EXCEPT !.command.vars = SetVar(@, key, val)]

silent(self) == [self EXCEPT !.command.stdout = "null", !.command.stderr = "null"]

\* Display of an integer: its decimal digits, one string per character
DigitChar(d) == <<"0", "1", "2", "3", "4", "5", "6", "7", "8", "9">>[d + 1]

RECURSIVE Decimal(_)
Decimal(n) ==
    IF n < 0 THEN <<"-">> \o Decimal(-n)
    ELSE IF n < 10 THEN <<DigitChar(n)>>
    ELSE Decimal(n \div 10) \o <<DigitChar(n % 10)>>

\* what Command::status can come back with: the spawn fails, or the child
\* runs and ends with an exit code or by a signal (no code)
ExitCodes == {0, 1, 7, 101}

SpawnErrors == {"NotFound"}

OsOutcomes ==
    {[spawned |-> FALSE, err |-> e, code |-> None] : e \in SpawnErrors}
    \cup {[spawned |-> TRUE, err |-> "", code |-> Some(c)] : c \in ExitCodes}
    \cup {[spawned |-> TRUE, err |-> "", code |-> None]}


\* mutant: success decided by the code with its default, so that a child ended
\* by a signal counts as a success
success_ByCodeOrZero(st) == (IF st.code # None THEN st.code[1] ELSE 0) = 0

\* ExitStatus::success
success(st) == st.code = Some(0)

unwrap_or(o, default) == IF is_some(o) THEN o[1] ELSE default

\* Subprocess::run: the result, and whether a process was started; os is what
\* Command::status would come back with
run(self, os) ==
    IF self.dry_run
    THEN [res |-> ResultOk, spawned |-> FALSE, eprinted |-> <<"[cargo-xtask] - skipped">>]
    ELSE IF ~os.spawned
    THEN [res |-> io_error(os.err), spawned |-> FALSE, eprinted |-> <<>>]
    ELSE IF ~success(os)
    THEN [res |-> msg(<<"Subprocess failed with the exit code ">>
                        \o Decimal(unwrap_or(os.code, 0))),
          spawned |-> TRUE, eprinted |-> <<>>]
    ELSE [res |-> ResultOk, spawned |-> TRUE, eprinted |-> <<>>]

(***************************************************************************)
(* The state machine.  last records the operation that ran last: what it   *)
(* was called with, the filesystem it started from and what it returned.   *)
(***************************************************************************)
NoOs == [spawned |-> FALSE, err |-> "", code |-> None]

NoLast ==
    [op |-> "none", path |-> <<>>, flags |-> 0, content |-> <<>>, res |-> ResultOk,
     before |-> <<>>, beforeFree |-> 0, spawned |-> FALSE, child |-> NoChild,
     os |-> NoOs, dry_run |-> FALSE, live |-> NoEnv]

EmptyFs == [p \in FsPaths |-> Absent]

Programs == {"echo", "sentinel"}

ArgValues == {"hi"}

ArgLists == {<<"a", "b">>}

\* the env(key, value) calls a caller makes
EnvPairs == {<<"X", <<"3">>>>, <<"X", <<"4">>>>, <<"DRY_RUN", <<"1">>>>}

Call(call, key, val) == [call |-> call, key |-> key, val |-> val]

\* std::env::set_var by the calling process
LiveSets == {<<"X", <<"2">>>>}

Init ==
    /\ live_env \in InitEnvs
    /\ build_env \in BuildEnvs
    /\ shell = NotConstructed
    /\ builder = NoBuilder
    /\ chain = <<>>
    /\ fs = EmptyFs
    /\ free = MaxFree
    /\ last = NoLast

New ==
    /\ shell.state = "none"
    /\ shell' = new(live_env, build_env)
    /\ last' = [NoLast EXCEPT !.op = "new", !.live = live_env]
    /\ UNCHANGED <<live_env, build_env, builder, chain, fs, free>>

set_var ==
    \E kv \in LiveSets :
        /\ var_os(live_env, kv[1]) # Some(kv[2])
        /\ live_env' = SetVar(live_env, kv[1], kv[2])
        /\ UNCHANGED <<build_env, shell, builder, chain, fs, free, last>>

Subprocess ==
    \E program \in Programs :
        /\ shell.state = "ok"
        /\ ~builder.alive
        /\ builder' = subprocess(shell, program)
        /\ chain' = <<>>
        /\ last' = [NoLast EXCEPT !.op = "subprocess"]
        /\ UNCHANGED <<live_env, build_env, shell, fs, free>>

Arg ==
    \E a \in ArgValues :
        /\ builder.alive /\ Len(chain) < MaxCalls
        /\ builder' = arg(builder, a)
        /\ chain' = Append(chain, Call("arg", "", <<a>>))
        /\ UNCHANGED <<live_env, build_env, shell, fs, free, last>>

Args ==
    \E as \in ArgLists :
        /\ builder.alive /\ Len(chain) < MaxCalls
        /\ builder' = args(builder, as)
        /\ chain' = Append(chain, Call("args", "", as))
        /\ UNCHANGED <<live_env, build_env, shell, fs, free, last>>

Env ==
    \E kv \in EnvPairs :
        /\ builder.alive /\ Len(chain) < MaxCalls
        /\ builder' = env(builder, kv[1], kv[2])
        /\ chain' = Append(chain, Call("env", kv[1], kv[2]))
        /\ UNCHANGED <<live_env, build_env, shell, fs, free, last>>

Silent ==
    /\ builder.alive /\ Len(chain) < MaxCalls
    /\ builder' = silent(builder)
    /\ chain' = Append(chain, Call("silent", "", <<>>))
    /\ UNCHANGED <<live_env, build_env, shell, fs, free, last>>

\* run consumes the builder; the chain stays as the record of how it was built
Run ==
    \E os \in OsOutcomes :
        /\ builder.alive
        /\ LET r == run(builder, os)
           IN  last' = [NoLast EXCEPT
                          !.op = "run", !.res = r.res, !.spawned = r.spawned,
                          !.child = IF r.spawned THEN ChildOf(builder.command, live_env)
                                    ELSE NoChild,
                          !.os = IF builder.dry_run THEN NoOs ELSE os,
                          !.dry_run = builder.dry_run,
                          !.content = r.eprinted,
                          !.live = live_env]
        /\ builder' = NoBuilder
        /\ UNCHANGED <<live_env, build_env, shell, chain, fs, free>>

Next == New \/ set_var \/ Subprocess \/ Arg \/ Args \/ Env \/ Silent \/ Run

Spec == Init /\ [][Next]_vars

(***************************************************************************)
(* The filesystem helpers, called on a constructed Shell.  The initial     *)
(* filesystem is any tree over FsPaths, with any of its directories        *)
(* read-only and up to MaxFree inodes left.                                *)
(***************************************************************************)
WellFormedFs == {f \in [FsPaths -> Nodes] : WellFormed(f)}

FsEnvs == {e \in InitEnvs : DOMAIN e \in {{"CARGO_MANIFEST_DIR"}, {"CARGO_MANIFEST_DIR", "DRY_RUN"}}
                            /\ e["CARGO_MANIFEST_DIR"] = <<RootDir, "repo", "crates", "xtask">>
                            /\ ("DRY_RUN" \in DOMAIN e => e["DRY_RUN"] = <<"1">>)}

InitFs ==
    /\ live_env \in FsEnvs
    /\ build_env = NoEnv
    /\ shell = new(live_env, build_env)
    /\ builder = NoBuilder
    /\ chain = <<>>
    /\ fs \in WellFormedFs
    /\ free \in 0..MaxFree
    /\ last = NoLast

FsCall(op, path, flags, content, o) ==
    /\ fs' = o.fs
    /\ free' = o.free
    /\ last' = [NoLast EXCEPT
                  !.op = op, !.path = path, !.flags = flags, !.content = content,
                  !.res = o.res, !.before = fs, !.beforeFree = free,
                  !.dry_run = is_some(var_os(shell.env_store, "DRY_RUN"))]
    /\ UNCHANGED <<live_env, build_env, shell, builder, chain>>

CreateDir ==
    \E path \in FsPaths, flags \in CreateFlags :
        /\ shell.state = "ok"
        /\ \E o \in create_dir(shell, fs, free, path, flags) :
               FsCall("create_dir", path, flags, <<>>, o)

Write ==
    \E path \in FsPaths, content \in Contents :
        /\ shell.state = "ok"
        /\ \E o \in write(shell, fs, free, path, content) :
               FsCall("write", path, 0, content, o)

Remove ==
    \E path \in FsPaths, flags \in RemoveFlags :
        /\ shell.state = "ok"
        /\ \E o \in remove(shell, fs, free, path, flags) :
               FsCall("remove", path, flags, <<>>, o)

NextFs == CreateDir \/ Write \/ Remove

SpecFs == InitFs /\ [][NextFs]_vars

(***************************************************************************)
(* Properties of the context and of the command builder (Spec).            *)
(***************************************************************************)
Snapshot == shell.env_store

DryRunInSnapshot == "DRY_RUN" \in DOMAIN Snapshot

EnvCallIndexes(ch) == {i \in 1..Len(ch) : ch[i].call = "env"}

OverrideKeys(ch) == {ch[i].key : i \in EnvCallIndexes(ch)}

LastOverride(ch, k) ==
    ch[CHOOSE i \in EnvCallIndexes(ch) :
           /\ ch[i].key = k
           /\ \A j \in EnvCallIndexes(ch) : ch[j].key = k => j <= i].val

\* the snapshot overlaid with the env() calls, the last call for a key winning
ExpectedEnv(snapshot, ch) ==
    [k \in DOMAIN snapshot \cup OverrideKeys(ch) |->
        IF k \in OverrideKeys(ch) THEN LastOverride(ch, k) ELSE snapshot[k]]

Contains(text, part) ==
    \E i \in 1..(Len(text) - Len(part) + 1) : SubSeq(text, i, i + Len(part) - 1) = part

\* the decimal text of the exit codes, written out
CodeText(c) ==
    CASE c = 0 -> <<"0">>
      [] c = 1 -> <<"1">>
      [] c = 7 -> <<"7">>
      [] c = 101 -> <<"1", "0", "1">>

\* C1: when DRY_RUN is present in the snapshot (whatever its value), run()
\* returns success and starts no process, for every program and every chain of
\* arg/args/env/silent calls, an env() override of DRY_RUN included.
C1_DryRunSkips ==
    (last.op = "run" /\ DryRunInSnapshot)
        => /\ last.res = ResultOk
           /\ ~last.spawned
           /\ last.child = NoChild

C1_Witness ==
    /\ last.op = "run"
    /\ DryRunInSnapshot
    /\ Snapshot["DRY_RUN"] = <<>>
    /\ "DRY_RUN" \in OverrideKeys(chain)
    /\ Len(chain) = MaxCalls
    /\ last.res = ResultOk

\* C2: without dry-run, run() returns an IO error wrapping the OS failure when
\* the spawn fails, a message error whose text holds the exit code when the
\* child exits non-zero (0 when a signal ended it and there is no code), and
\* success when the child exits with zero; it returns success in no other case.
C2_RunOutcome ==
    (last.op = "run" /\ ~DryRunInSnapshot)
        => /\ ~last.os.spawned
                => last.res = [kind |-> "Io", text |-> <<last.os.err>>] /\ ~last.spawned
           /\ (last.os.spawned /\ last.os.code # None /\ last.os.code # <<0>>)
                => /\ last.res.kind = "Msg"
                   /\ Contains(last.res.text, CodeText(last.os.code[1]))
                   /\ last.res.text = <<"Subprocess failed with the exit code ">>
                                         \o CodeText(last.os.code[1])
           /\ (last.os.spawned /\ last.os.code = None)
                => last.res.kind = "Msg" /\ Contains(last.res.text, <<"0">>)
           /\ (last.os.spawned /\ last.os.code = <<0>>) => last.res = ResultOk
           /\ last.res = ResultOk => (last.os.spawned /\ last.os.code = <<0>>)
           /\ last.spawned = last.os.spawned

C2_Witness ==
    /\ last.op = "run"
    /\ ~DryRunInSnapshot
    /\ last.os.code = <<7>>
    /\ last.res = [kind |-> "Msg", text |-> <<"Subprocess failed with the exit code ", "7">>]

\* C3: in every state of a builder, the environment its child would receive is
\* the snapshot overlaid with the env() overrides, the last call for a key
\* winning; a variable of the live environment that is in neither never
\* reaches the child.
C3_ExplicitEnv ==
    /\ builder.alive
         => /\ ChildEnv(builder.command, live_env) = ExpectedEnv(Snapshot, chain)
            /\ \A k \in DOMAIN live_env :
                   k \notin (DOMAIN Snapshot \cup OverrideKeys(chain))
                       => k \notin DOMAIN ChildEnv(builder.command, live_env)
    /\ (last.op = "run" /\ last.spawned)
         => /\ last.child.env = ExpectedEnv(Snapshot, chain)
            /\ \A k \in DOMAIN last.live :
                   k \notin (DOMAIN Snapshot \cup OverrideKeys(chain))
                       => k \notin DOMAIN last.child.env

C3_Witness ==
    /\ last.op = "run" /\ last.spawned
    /\ "X" \in DOMAIN last.live
    /\ "X" \notin DOMAIN last.child.env
    /\ "DRY_RUN" \notin DOMAIN Snapshot
    /\ var_os(last.child.env, "DRY_RUN") = Some(<<"1">>)
    /\ "CARGO_MANIFEST_DIR" \in DOMAIN last.child.env

RepoCratesXtask ==
    /\ shell.state = "ok"
    /\ var_os(Snapshot, "CARGO_MANIFEST_DIR") = Some(<<RootDir, "repo", "crates", "xtask">>)
    /\ "CARGO_TARGET_DIR" \notin DOMAIN Snapshot

\* C5 as claimed: with CARGO_MANIFEST_DIR = /repo/crates/xtask and no
\* CARGO_TARGET_DIR, project_root() is /repo and target_dir() is /repo/target.
C5_Original ==
    RepoCratesXtask
        => /\ project_root(shell) = <<RootDir, "repo">>
           /\ target_dir(shell) = <<RootDir, "repo", "target">>

\* C5: with CARGO_MANIFEST_DIR = /repo/crates/xtask and no CARGO_TARGET_DIR,
\* project_root() is the manifest directory's parent /repo/crates, and
\* target_dir() is /repo/crates/target.
C5_RootIsParent ==
    RepoCratesXtask
        => /\ project_root(shell) = <<RootDir, "repo", "crates">>
           /\ target_dir(shell) = <<RootDir, "repo", "crates", "target">>

C5_Witness ==
    /\ RepoCratesXtask
    /\ last.op = "new"
    /\ project_root(shell) = <<RootDir, "repo", "crates">>

(***************************************************************************)
(* Properties of the filesystem helpers (SpecFs).                          *)
(***************************************************************************)
Failed(r) == r.kind # "Ok"

Recursive(l) ==
    IF l.op = "remove" THEN contains(l.flags, RemoveFlags_RECURSIVE)
    ELSE contains(l.flags, CreateFlags_RECURSIVE)

\* the operating system refused the call for want of permission or of space
Refused(r) == r.kind = "Io" /\ r.text \in {<<"PermissionDenied">>, <<"StorageFull">>}

Exists(f, p) == KindOf(f, p) # "none"

\* reading a file back
fs_read(f, p) == IF IsFile(f, p) THEN Some(f[p].content) ELSE None

Changed(f, g) == {q \in FsPaths : f[q] # g[q]}

C6_Step ==
    last'.op = "remove"
        => /\ ~Exists(fs, last'.path)
                => last'.res = ResultOk /\ fs' = fs /\ free' = free
           /\ (last.op = "remove" /\ last.res = ResultOk
                 /\ last.path = last'.path /\ last.flags = last'.flags)
                => last'.res = ResultOk

\* C6: remove(P, flags) of a path that does not exist returns success and
\* leaves the filesystem as it was, whatever the flags; and a remove(P, flags)
\* that follows a successful remove(P, flags) succeeds too.
C6_RemoveIdempotent == [][C6_Step]_vars

C6_Witness ==
    /\ last.op = "remove"
    /\ Recursive(last)
    /\ ~Exists(last.before, last.path)
    /\ last.before # EmptyFs
    /\ last.res = ResultOk
    /\ fs = last.before

\* C7 as claimed, granting it the calls the operating system refuses for want
\* of permission or of space: create_dir(P, RECURSIVE) succeeds for every P,
\* and leaves the filesystem as it is when P is already there; create_dir(P)
\* without RECURSIVE fails with an IO error when P exists or its parent
\* directory is missing, and otherwise creates exactly one directory level.
C7_Original ==
    (last.op = "create_dir" /\ ~Refused(last.res))
        => IF Recursive(last)
           THEN /\ last.res = ResultOk
                /\ IsDir(last.before, last.path) => fs = last.before
           ELSE IF Exists(last.before, last.path) \/ ~IsDir(last.before, Parent(last.path))
           THEN last.res.kind = "Io" /\ fs = last.before
           ELSE last.res = ResultOk /\ fs = [last.before EXCEPT ![last.path] = Dir(FALSE)]

C7_Step ==
    last'.op = "create_dir"
        => IF Recursive(last')
           THEN /\ (last.op = "create_dir" /\ Recursive(last) /\ last.res = ResultOk
                      /\ last.path = last'.path)
                     => last'.res = ResultOk /\ fs' = fs /\ free' = free
                /\ last'.res = ResultOk => IsDir(fs', last'.path)
                /\ IsDir(fs, last'.path) => last'.res = ResultOk /\ fs' = fs
                /\ (Exists(fs, last'.path) /\ ~IsDir(fs, last'.path))
                     => last'.res.kind = "Io" /\ fs' = fs
           ELSE IF Exists(fs, last'.path) \/ ~IsDir(fs, Parent(last'.path))
           THEN last'.res.kind = "Io" /\ fs' = fs /\ free' = free
           ELSE \/ /\ last'.res = ResultOk
                   /\ fs' = [fs EXCEPT ![last'.path] = Dir(FALSE)]
                \/ /\ Refused(last'.res)
                   /\ fs' = fs /\ free' = free

\* C7: whenever create_dir(P, RECURSIVE) succeeds, P is a directory, and a
\* second create_dir(P, RECURSIVE) succeeds too and leaves the filesystem
\* unchanged; the call does not succeed for every P: it fails with an IO error
\* when P exists and is not a directory.  create_dir(P) without RECURSIVE fails
\* with an IO error, changing nothing, when P exists or its parent directory is
\* missing; otherwise it creates exactly the one directory P, unless the
\* operating system refuses the call (no permission, no space), and then it
\* fails with an IO error and changes nothing.
C7_CreateDir == [][C7_Step]_vars

C7_Witness ==
    /\ last.op = "create_dir"
    /\ Recursive(last)
    /\ last.res = ResultOk
    /\ IsDir(last.before, last.path)
    /\ fs = last.before
    /\ Len(last.path) = 3

\* C8: after a successful write(P, bytes) reading P returns exactly bytes,
\* whatever P held before (nothing of an earlier, longer content is left), and
\* the write has created P when it was absent.
C8_WriteRoundTrip ==
    (last.op = "write" /\ last.res = ResultOk)
        => /\ fs_read(fs, last.path) = Some(last.content)
           /\ \A q \in FsPaths \ {last.path} : fs[q] = last.before[q]
           /\ ~Exists(last.before, last.path) => IsFile(fs, last.path)

C8_Witness ==
    /\ last.op = "write"
    /\ last.res = ResultOk
    /\ IsFile(last.before, last.path)
    /\ Len(last.before[last.path].content) > Len(last.content)
    /\ fs_read(fs, last.path) = Some(last.content)

\* C9 as claimed: an operation that returns an error has changed nothing.
C9_Original ==
    (last.op \in {"create_dir", "write", "remove"} /\ Failed(last.res))
        => fs = last.before /\ free = last.beforeFree

\* C9: an operation that returns success has applied its effect in full, and
\* one that returns an error is not rolled back.  A failed create_dir or
\* remove without RECURSIVE has changed nothing.  A failed
\* create_dir(P, RECURSIVE) has removed nothing and created nothing but
\* directories that are ancestors of P, which it may leave behind; a failed
\* remove(P, RECURSIVE) has created nothing and removed nothing but entries
\* beneath P, which may be gone while P itself is still there.
C9_NoRollback ==
    /\ (last.op = "create_dir" /\ last.res = ResultOk)
         => /\ IsDir(fs, last.path)
            /\ \A q \in Changed(last.before, fs) :
                   ~Exists(last.before, q) /\ fs[q] = Dir(FALSE)
                     /\ (q = last.path \/ last.path \in Below(q))
    /\ (last.op = "remove" /\ last.res = ResultOk)
         => /\ ~Exists(fs, last.path)
            /\ \A q \in Changed(last.before, fs) :
                   fs[q] = Absent /\ (q = last.path \/ q \in Below(last.path))
    /\ (last.op \in {"create_dir", "remove"} /\ Failed(last.res) /\ ~Recursive(last))
         => fs = last.before /\ free = last.beforeFree
    /\ (last.op = "create_dir" /\ Failed(last.res) /\ Recursive(last))
         => /\ ~IsDir(fs, last.path)
            /\ \A q \in Changed(last.before, fs) :
                   ~Exists(last.before, q) /\ fs[q] = Dir(FALSE) /\ last.path \in Below(q)
    /\ (last.op = "remove" /\ Failed(last.res) /\ Recursive(last))
         => /\ fs[last.path] = last.before[last.path]
            /\ \A q \in Changed(last.before, fs) :
                   fs[q] = Absent /\ q \in Below(last.path)

C9_Witness ==
    /\ last.op = "remove"
    /\ Recursive(last)
    /\ Failed(last.res)
    /\ Changed(last.before, fs) # {}
    /\ IsDir(fs, last.path)

WithDryRun(self) == [self EXCEPT !.env_store = SetVar(@, "DRY_RUN", <<"1">>)]

WithoutDryRun(self) ==
    [self EXCEPT !.env_store = [k \in DOMAIN @ \ {"DRY_RUN"} |-> @[k]]]

Observed == [res |-> last.res, fs |-> fs, free |-> free]

OutcomesOf(self) ==
    CASE last.op = "create_dir"
           -> create_dir(self, last.before, last.beforeFree, last.path, last.flags)
      [] last.op = "write"
           -> write(self, last.before, last.beforeFree, last.path, last.content)
      [] last.op = "remove"
           -> remove(self, last.before, last.beforeFree, last.path, last.flags)

\* C10: the dry-run flag gates Subprocess::run alone.  What a call of
\* create_dir, write or remove returns and leaves behind is what the same
\* call on the same filesystem returns and leaves behind with DRY_RUN in the
\* snapshot, and with DRY_RUN not in it; under dry-run a successful helper has
\* created the directory, written the file or removed the path.
C10_DryRunLeavesFsHelpers ==
    last.op \in {"create_dir", "write", "remove"}
        => /\ Observed \in OutcomesOf(WithDryRun(shell))
           /\ Observed \in OutcomesOf(WithoutDryRun(shell))
           /\ OutcomesOf(WithDryRun(shell)) = OutcomesOf(WithoutDryRun(shell))
           /\ (last.dry_run /\ last.res = ResultOk)
                => /\ last.op = "create_dir" => IsDir(fs, last.path)
                   /\ last.op = "write" => fs_read(fs, last.path) = Some(last.content)
                   /\ last.op = "remove" => ~Exists(fs, last.path)

C10_Witness ==
    /\ last.op = "create_dir"
    /\ last.dry_run
    /\ DryRunInSnapshot
    /\ last.res = ResultOk
    /\ ~Exists(last.before, last.path)
    /\ IsDir(fs, last.path)

====
